---- MODULE Spec2Model ----
(***************************************************************************)
(* Model of the Streamlit client of the AI RAG Study Assistant: the        *)
(* backend locator (BACKEND_URL), the three transport functions            *)
(* (check_backend_health, build_index, ask_question) and the three button  *)
(* handlers of the page script.                                            *)
(*                                                                         *)
(* Python values that cross the HTTP boundary are modelled as tagged JSON  *)
(* values; Python strings are TLA+ strings, so str(), repr(), strip() and  *)
(* rstrip() are computed character by character and f-strings by \o.       *)
(***************************************************************************)
EXTENDS Integers, Sequences, FiniteSets, TLC

VARIABLES
    env,             \* the BACKEND_URL environment variable: [set, value]
    BACKEND_URL,     \* module-level constant computed at import
    booted,          \* TRUE once the module-level code computing BACKEND_URL ran
    uploaded_files,  \* the file objects held by the uploader widget / the caller
    question,        \* the text held by the text area / passed by the caller
    clicked,         \* the button whose st.button() is True in the current run
    pending,         \* the transport call blocked in requests.get/post, or NoCall
    sent,            \* the HTTP requests issued during the current invocation
    called,          \* the transport functions entered during the current invocation
    last,            \* the most recent transport call that finished: fn, arg, outcome, out
    rendered         \* the elements on the page, per section

vars == <<env, BACKEND_URL, booted, uploaded_files, question, clicked, pending,
          sent, called, last, rendered>>

-----------------------------------------------------------------------------
(* Bounds of the model *)

MaxSlashes == 2      \* trailing "/" characters appended to an override value
MaxQuestionLen == 2  \* characters in the text area
MaxChunks == 2       \* chunk records in a /ask response

-----------------------------------------------------------------------------
(* Python strings *)

CharAt(s, i) == SubSeq(s, i, i)

\* str.rstrip(chars) for a single character
RECURSIVE rstrip(_, _)
rstrip(s, c) ==
    IF Len(s) > 0 /\ CharAt(s, Len(s)) = c
    THEN rstrip(SubSeq(s, 1, Len(s) - 1), c)
    ELSE s

Whitespace == {" ", "\t", "\n"}

RECURSIVE lstrip_ws(_)
lstrip_ws(s) ==
    IF Len(s) > 0 /\ CharAt(s, 1) \in Whitespace
    THEN lstrip_ws(SubSeq(s, 2, Len(s)))
    ELSE s

RECURSIVE rstrip_ws(_)
rstrip_ws(s) ==
    IF Len(s) > 0 /\ CharAt(s, Len(s)) \in Whitespace
    THEN rstrip_ws(SubSeq(s, 1, Len(s) - 1))
    ELSE s

\* str.strip() with no argument
strip(s) == rstrip_ws(lstrip_ws(s))

\* sub in s, for two strings
Contains(s, sub) ==
    \E i \in 1..(Len(s) - Len(sub) + 1) : SubSeq(s, i, i + Len(sub) - 1) = sub

StartsWith(s, p) == Len(s) >= Len(p) /\ SubSeq(s, 1, Len(p)) = p

\* every string of exactly n characters over a sequence of characters
RECURSIVE StringsOfLen(_, _)
StringsOfLen(chars, n) ==
    IF n = 0 THEN {""}
    ELSE {s \o chars[i] : s \in StringsOfLen(chars, n - 1), i \in 1..Len(chars)}

RECURSIVE Repeat(_, _)
Repeat(c, n) == IF n = 0 THEN "" ELSE c \o Repeat(c, n - 1)

-----------------------------------------------------------------------------
(* JSON values as Python sees them after resp.json() *)

JStr(s) == [t |-> "str", v |-> s]
JNum(n) == [t |-> "num", v |-> n]
JArr(a) == [t |-> "arr", v |-> a]
JObj(p) == [t |-> "obj", v |-> p]     \* p: sequence of <<key, value>>, in dict order
JBool(b) == [t |-> "bool", v |-> b]
JNull == [t |-> "null", v |-> 0]

IsDict(v) == v.t = "obj"

\* key in d, for a dict d
DictHas(d, k) == \E i \in 1..Len(d.v) : d.v[i][1] = k

\* d.get(k, default), for a dict d
DictGet(d, k, default) ==
    IF DictHas(d, k)
    THEN d.v[CHOOSE i \in 1..Len(d.v) : d.v[i][1] = k][2]
    ELSE default

\* bool(v)
Truthy(v) ==
    CASE v.t = "str" -> v.v # ""
      [] v.t = "num" -> v.v # 0
      [] v.t = "arr" -> Len(v.v) > 0
      [] v.t = "obj" -> Len(v.v) > 0
      [] v.t = "bool" -> v.v
      [] OTHER -> FALSE

RECURSIVE PyRepr(_)
RECURSIVE PyReprItems(_, _)
RECURSIVE PyReprPairs(_, _)
\* repr(v)
PyRepr(v) ==
    CASE v.t = "str" -> "'" \o v.v \o "'"
      [] v.t = "num" -> ToString(v.v)
      [] v.t = "arr" -> "[" \o PyReprItems(v.v, 1) \o "]"
      [] v.t = "obj" -> "{" \o PyReprPairs(v.v, 1) \o "}"
      [] v.t = "bool" -> IF v.v THEN "True" ELSE "False"
      [] OTHER -> "None"
PyReprItems(a, i) ==
    IF i > Len(a) THEN ""
    ELSE PyRepr(a[i]) \o (IF i < Len(a) THEN ", " ELSE "") \o PyReprItems(a, i + 1)
PyReprPairs(p, i) ==
    IF i > Len(p) THEN ""
    ELSE "'" \o p[i][1] \o "': " \o PyRepr(p[i][2])
         \o (IF i < Len(p) THEN ", " ELSE "") \o PyReprPairs(p, i + 1)

\* str(v), which is what an f-string placeholder inserts
PyStr(v) == IF v.t = "str" THEN v.v ELSE PyRepr(v)

RECURSIVE JsonText(_)
RECURSIVE JsonTextItems(_, _)
RECURSIVE JsonTextPairs(_, _)
\* the text of a response body that carries the JSON value v
JsonText(v) ==
    CASE v.t = "str" -> "\"" \o v.v \o "\""
      [] v.t = "num" -> ToString(v.v)
      [] v.t = "arr" -> "[" \o JsonTextItems(v.v, 1) \o "]"
      [] v.t = "obj" -> "{" \o JsonTextPairs(v.v, 1) \o "}"
      [] v.t = "bool" -> IF v.v THEN "true" ELSE "false"
      [] OTHER -> "null"
JsonTextItems(a, i) ==
    IF i > Len(a) THEN ""
    ELSE JsonText(a[i]) \o (IF i < Len(a) THEN "," ELSE "") \o JsonTextItems(a, i + 1)
JsonTextPairs(p, i) ==
    IF i > Len(p) THEN ""
    ELSE "\"" \o p[i][1] \o "\":" \o JsonText(p[i][2])
         \o (IF i < Len(p) THEN "," ELSE "") \o JsonTextPairs(p, i + 1)

\* what a Python call produces: a value, or an exception that leaves the function
Return(v) == [kind |-> "return", value |-> v, exc |-> ""]
Raise(e) == [kind |-> "raise", value |-> JNull, exc |-> e]

-----------------------------------------------------------------------------
(* Backend Locator *)

DEFAULT_BACKEND_URL == "https://ai-study-assistant-7oub.onrender.com"

\* os.getenv(name, default): the default is used only when the variable is unset
getenv(e, default) == IF e.set THEN e.value ELSE default

ResolveBackendUrl(e) == rstrip(getenv(e, DEFAULT_BACKEND_URL), "/")

EnvUnset == [set |-> FALSE, value |-> ""]
EnvPrefixes == {"", "http://h/api"}
EnvValues ==
    {EnvUnset} \cup
    {[set |-> TRUE, value |-> p \o Repeat("/", n)] : p \in EnvPrefixes, n \in 0..MaxSlashes}

-----------------------------------------------------------------------------
(* The network and the backend, as requests.get / requests.post see them *)

HEALTH_TIMEOUT == 10
BUILD_TIMEOUT == 300
ASK_TIMEOUT == 120

NoRequest == [method |-> "", url |-> "", timeout |-> 0, files |-> <<>>, json |-> JNull]

\* a response body: its text, and the value resp.json() decodes it to when it is JSON
JsonBody(v) == [valid |-> TRUE, value |-> v, text |-> JsonText(v)]
RawBody(s) == [valid |-> FALSE, value |-> JNull, text |-> s]

\* resp.json()
json(resp) ==
    IF resp.body.valid THEN Return(resp.body.value) ELSE Raise("JSONDecodeError")

Fault(cause) ==
    [kind |-> "fault", cause |-> cause, status_code |-> 0, body |-> RawBody("")]
Response(status, body) ==
    [kind |-> "response", cause |-> "", status_code |-> status, body |-> body]

Statuses == {200, 201, 500}

\* bodies any endpoint may answer with: not JSON, JSON objects, JSON that is no object
CommonBodies ==
    { RawBody("Internal Server Error"),
      RawBody(""),
      JsonBody(JObj(<< <<"detail", JStr("index corrupt")>> >>)),
      JsonBody(JObj(<< <<"message", JStr("boom")>> >>)),
      JsonBody(JObj(<< <<"error", JStr("quota exceeded")>> >>)),
      JsonBody(JObj(<< >>)),
      JsonBody(JArr(<< JStr("error") >>)),
      JsonBody(JArr(<< >>)),
      JsonBody(JStr("an error occurred")),
      JsonBody(JNum(42)),
      JsonBody(JNull) }

\* /build_index bodies of a build that went through
BuildBodies ==
    { JsonBody(JObj(<< <<"chunks", JNum(42)>> >>)),
      JsonBody(JObj(<< <<"status", JStr("ok")>> >>)) }

ChunkFull ==
    JObj(<< <<"text", JStr("t")>>,
            <<"metadata", JObj(<< <<"source_file", JStr("a.pdf")>>,
                                  <<"chunk_index", JNum(3)>> >>)>> >>)
ChunkNullMeta == JObj(<< <<"text", JStr("u")>>, <<"metadata", JNull>> >>)
ChunkNoText == JObj(<< <<"metadata", JObj(<< <<"source_file", JStr("b.pdf")>> >>)>> >>)
ChunkPool == {ChunkFull, ChunkNullMeta, ChunkNoText}

ChunkSeqs == UNION {[1..n -> ChunkPool] : n \in 0..MaxChunks}

Opt(present, k, v) == IF present THEN << <<k, v>> >> ELSE << >>

\* /ask bodies: every choice of which optional fields are present
AskObjects ==
    { JObj(Opt(a, "answer", JStr("X")) \o Opt(c, "context", JStr("Y")))
        : a \in BOOLEAN, c \in BOOLEAN } \cup
    { JObj(Opt(a, "answer", JStr("X")) \o Opt(c, "context", JStr("Y"))
           \o << <<"chunks", JArr(ch)>> >>)
        : a \in BOOLEAN, c \in BOOLEAN, ch \in ChunkSeqs }

AskBodies ==
    {JsonBody(o) : o \in AskObjects} \cup
    { JsonBody(JObj(<< <<"answer", JStr("X")>>, <<"chunks", JArr(<< JStr("raw") >>)>> >>)) }

\* requests rejects a URL without a scheme before anything is sent
Routable(url) == StartsWith(url, "http://") \/ StartsWith(url, "https://")

\* what a requests call can end in: an exception, a response of any status with
\* any of the common bodies, or a 200 with one of the endpoint's own bodies
Outcomes(url, bodies) ==
    IF Routable(url)
    THEN {Fault("Connection refused"), Fault("Read timed out")} \cup
         {Response(s, b) : s \in Statuses, b \in CommonBodies} \cup
         {Response(200, b) : b \in bodies}
    ELSE {Fault("Invalid URL '" \o url \o "': No scheme supplied")}

-----------------------------------------------------------------------------
(* Uploaded files *)

File(name, data, pos) == [name |-> name, data |-> data, pos |-> pos]

\* f.seek(p)
seek(f, p) == [f EXCEPT !.pos = p]

\* f.read(): the bytes from the cursor to the end
read(f) == SubSeq(f.data, f.pos + 1, Len(f.data))

\* the file object after f.read()
AfterRead(f) == [f EXCEPT !.pos = Len(f.data)]

FileA == File("a.pdf", "%PDF-a", 0)
FileB == File("b.pdf", "%PDF-b", 0)

\* what the uploader widget can hold: fresh file objects, cursor at the start
Uploads == {<< >>, <<FileA>>, <<FileB>>, <<FileA, FileB>>, <<FileB, FileA>>}

\* what a caller can pass: the same, with cursors anywhere
Cursors(fs) ==
    {[i \in 1..Len(fs) |-> seek(fs[i], IF i \in moved THEN Len(fs[i].data) ELSE 0)]
        : moved \in SUBSET (1..Len(fs))}
FileArgs == UNION {Cursors(fs) : fs \in Uploads}

\* what a caller can pass
Questions ==
    UNION {StringsOfLen(<<" ", "\n", "a">>, n) : n \in 0..MaxQuestionLen}

\* what the text area can hold
Typed ==
    UNION {StringsOfLen(<<" ", "a">>, n) : n \in 0..MaxQuestionLen}

-----------------------------------------------------------------------------
(* Transport Client *)

ErrorDict(msg) == JObj(<< <<"error", JStr(msg)>> >>)

check_backend_health_request ==
    [NoRequest EXCEPT !.method = "GET",
                      !.url = BACKEND_URL \o "/health",
                      !.timeout = HEALTH_TIMEOUT]

\* variant: resp.ok in place of the comparison with 200
check_backend_health_finish_ok(o) ==
    IF o.kind = "fault"
    THEN Return(JBool(FALSE))
    ELSE Return(JBool(o.status_code < 400))

\* lines 22-26, from the moment requests.get ends
check_backend_health_finish(o) ==
    IF o.kind = "fault"
    THEN Return(JBool(FALSE))
    ELSE Return(JBool(o.status_code = 200))

\* lines 37-46: the multipart parts, each file rewound and read in full
files_payload(files) ==
    [i \in 1..Len(files) |->
        <<"files", <<files[i].name, read(seek(files[i], 0)), "application/pdf">> >>]

\* variant: the guard of lines 33-34 missing
build_index_begin_unguarded(files) ==
    [done |-> FALSE,
     out |-> Return(JNull),
     files |-> [i \in 1..Len(files) |-> AfterRead(seek(files[i], 0))],
     request |-> [NoRequest EXCEPT !.method = "POST",
                                   !.url = BACKEND_URL \o "/build_index",
                                   !.timeout = BUILD_TIMEOUT,
                                   !.files = files_payload(files)]]

\* lines 33-53: the guard, or the request that is posted
build_index_begin(files) ==
    IF Len(files) = 0
    THEN [done |-> TRUE,
          out |-> Return(ErrorDict("Please upload at least one PDF.")),
          files |-> files,
          request |-> NoRequest]
    ELSE [done |-> FALSE,
          out |-> Return(JNull),
          files |-> [i \in 1..Len(files) |-> AfterRead(seek(files[i], 0))],
          request |-> [NoRequest EXCEPT !.method = "POST",
                                        !.url = BACKEND_URL \o "/build_index",
                                        !.timeout = BUILD_TIMEOUT,
                                        !.files = files_payload(files)]]

\* lines 54-66, from the moment requests.post ends
build_index_finish(o) ==
    IF o.kind = "fault"
    THEN Return(ErrorDict("Failed to reach backend: " \o o.cause))
    ELSE IF o.status_code # 200
    THEN LET parsed == json(o)
             data == IF parsed.kind = "return"
                     THEN parsed.value
                     ELSE JObj(<< <<"detail", JStr(o.body.text)>> >>)
         IN  IF IsDict(data)
             THEN Return(ErrorDict("Backend error (" \o ToString(o.status_code) \o "): "
                                   \o PyStr(DictGet(data, "detail", data))))
             ELSE Raise("AttributeError")
    ELSE json(o)

\* variant: the guard of line 74 without strip()
ask_question_begin_unstripped(q) ==
    IF q = ""
    THEN [done |-> TRUE,
          out |-> Return(ErrorDict("Please enter a question.")),
          request |-> NoRequest]
    ELSE [done |-> FALSE,
          out |-> Return(JNull),
          request |-> [NoRequest EXCEPT !.method = "POST",
                                        !.url = BACKEND_URL \o "/ask",
                                        !.timeout = ASK_TIMEOUT,
                                        !.json = JObj(<< <<"question", JStr(q)>> >>)]]

\* lines 74-84: the guard, or the request that is posted
ask_question_begin(q) ==
    IF strip(q) = ""
    THEN [done |-> TRUE,
          out |-> Return(ErrorDict("Please enter a question.")),
          request |-> NoRequest]
    ELSE [done |-> FALSE,
          out |-> Return(JNull),
          request |-> [NoRequest EXCEPT !.method = "POST",
                                        !.url = BACKEND_URL \o "/ask",
                                        !.timeout = ASK_TIMEOUT,
                                        !.json = JObj(<< <<"question", JStr(q)>> >>)]]

\* lines 85-97, from the moment requests.post ends
ask_question_finish(o) ==
    IF o.kind = "fault"
    THEN Return(ErrorDict("Failed to reach backend: " \o o.cause))
    ELSE IF o.status_code # 200
    THEN LET parsed == json(o)
             data == IF parsed.kind = "return"
                     THEN parsed.value
                     ELSE JObj(<< <<"detail", JStr(o.body.text)>> >>)
         IN  IF IsDict(data)
             THEN Return(ErrorDict("Backend error (" \o ToString(o.status_code) \o "): "
                                   \o PyStr(DictGet(data, "detail", data))))
             ELSE Raise("AttributeError")
    ELSE json(o)

-----------------------------------------------------------------------------
(* Interaction Controller: what each button handler puts on the page.      *)
(* Emoji, backquotes and the long dash are left out of the texts.           *)

El(kind, text, value) == [el |-> kind, text |-> text, value |-> value]
Text(kind, text) == El(kind, text, JNull)

\* an exception that leaves the script: Streamlit shows it and stops the run
Uncaught(exc) == Text("exception", exc)

\* "error" in result, for any Python value
ErrorIn(result) ==
    CASE result.t = "obj" -> [raises |-> FALSE, value |-> DictHas(result, "error")]
      [] result.t = "arr" ->
            [raises |-> FALSE,
             value |-> \E i \in 1..Len(result.v) :
                           result.v[i].t = "str" /\ result.v[i].v = "error"]
      [] result.t = "str" -> [raises |-> FALSE, value |-> Contains(result.v, "error")]
      [] OTHER -> [raises |-> TRUE, value |-> FALSE]

\* lines 122-125
health_render(out) ==
    IF out.kind = "raise" THEN << Uncaught(out.exc) >>
    ELSE IF out.value.v
    THEN << Text("success", "Backend is healthy") >>
    ELSE << Text("error", "Backend is not reachable") >>

\* line 147
build_warning ==
    << Text("warning", "Please upload at least one PDF before building the index.") >>

\* lines 152-156
build_render(out) ==
    IF out.kind = "raise" THEN << Uncaught(out.exc) >>
    ELSE LET result == out.value
             has == ErrorIn(result)
         IN  IF has.raises THEN << Uncaught("TypeError") >>
             ELSE IF ~IsDict(result)
             THEN << Uncaught(IF has.value THEN "TypeError" ELSE "AttributeError") >>
             ELSE IF has.value
             THEN << Text("error", PyStr(DictGet(result, "error", JNull))) >>
             ELSE << Text("success",
                          "Index built successfully\n\n**Total chunks indexed:** "
                          \o PyStr(DictGet(result, "chunks", JNum(0)))) >>

\* lines 196-204: one pass of the loop body, for the chunk ch numbered i
chunk_render(i, ch) ==
    IF ~IsDict(ch) THEN << Uncaught("AttributeError") >>
    ELSE LET got == DictGet(ch, "metadata", JObj(<< >>))
             meta == IF Truthy(got) THEN got ELSE JObj(<< >>)
         IN  IF ~IsDict(meta) THEN << Uncaught("AttributeError") >>
             ELSE << Text("markdown",
                          "**Chunk " \o ToString(i) \o "**  \n*Source:* "
                          \o PyStr(DictGet(meta, "source_file", JStr("unknown")))
                          \o " - *chunk index:* "
                          \o PyStr(DictGet(meta, "chunk_index", JNum(-1)))),
                     El("write", "", DictGet(ch, "text", JStr(""))),
                     Text("markdown", "---") >>

Crashed(els) == Len(els) > 0 /\ els[Len(els)].el = "exception"

\* variant: the loop over reversed(chunks), numbered 1, 2, ...
RECURSIVE chunks_render_reversed(_, _)
chunks_render_reversed(chunks, i) ==
    IF i > Len(chunks) THEN << >>
    ELSE LET one == chunk_render(i, chunks[Len(chunks) + 1 - i])
         IN  IF Crashed(one) THEN one ELSE one \o chunks_render_reversed(chunks, i + 1)

\* lines 195-204: the loop over enumerate(chunks, start=1), from position i on
RECURSIVE chunks_render(_, _)
chunks_render(chunks, i) ==
    IF i > Len(chunks) THEN << >>
    ELSE LET one == chunk_render(i, chunks[i])
         IN  IF Crashed(one) THEN one ELSE one \o chunks_render(chunks, i + 1)

\* variant: the empty string as the default of line 186
answer_shown_empty(result) == DictGet(result, "answer", JStr(""))

\* line 186
answer_shown(result) == DictGet(result, "answer", JStr("No answer returned."))

\* line 190
context_shown(result) == DictGet(result, "context", JStr(""))

\* line 192
chunks_of(result) == DictGet(result, "chunks", JArr(<< >>))

\* lines 182-204
ask_render(out) ==
    IF out.kind = "raise" THEN << Uncaught(out.exc) >>
    ELSE LET result == out.value
             has == ErrorIn(result)
         IN  IF has.raises THEN << Uncaught("TypeError") >>
             ELSE IF ~IsDict(result)
             THEN << Uncaught(IF has.value THEN "TypeError" ELSE "AttributeError") >>
             ELSE IF has.value
             THEN << Text("error", PyStr(DictGet(result, "error", JNull))) >>
             ELSE LET chunks == chunks_of(result)
                  IN  << Text("markdown", "### Answer"),
                         El("write", "", answer_shown(result)),
                         El("code", "", context_shown(result)) >>
                      \o (IF ~Truthy(chunks) THEN << >>
                          ELSE IF chunks.t = "arr" THEN chunks_render(chunks.v, 1)
                          ELSE IF chunks.t \in {"str", "obj"}
                          THEN << Uncaught("AttributeError") >>
                          ELSE << Uncaught("TypeError") >>)

-----------------------------------------------------------------------------
(* State *)

NoOutcome == [kind |-> "none", cause |-> "", status_code |-> 0, body |-> RawBody("")]
Call(fn, files, q) == [fn |-> fn, files |-> files, question |-> q]
NoCall == [fn |-> "none", files |-> << >>, question |-> "", request |-> NoRequest]
Blocked(fn, files, q, req) == [fn |-> fn, files |-> files, question |-> q, request |-> req]
NoLast == [fn |-> "none", files |-> << >>, question |-> "",
           outcome |-> NoOutcome, out |-> Return(JNull)]
Finished(fn, files, q, o, out) ==
    [fn |-> fn, files |-> files, question |-> q, outcome |-> o, out |-> out]
Blank == [health |-> << >>, build |-> << >>, ask |-> << >>]

Init ==
    /\ env \in EnvValues
    /\ BACKEND_URL = ""
    /\ booted = FALSE
    /\ uploaded_files = << >>
    /\ question = ""
    /\ clicked = "none"
    /\ pending = NoCall
    /\ sent = << >>
    /\ called = << >>
    /\ last = NoLast
    /\ rendered = Blank

\* lines 11-14, run once when the module is loaded
Startup ==
    /\ ~booted
    /\ booted' = TRUE
    /\ BACKEND_URL' = ResolveBackendUrl(env)
    /\ UNCHANGED <<env, uploaded_files, question, clicked, pending, sent, called, last,
                   rendered>>

Ready == booted /\ pending = NoCall

-----------------------------------------------------------------------------
(* The page: every interaction reruns the script top to bottom, so what the *)
(* previous run rendered and returned is gone; at most one button is true.  *)
(* A run is taken to end before the next interaction is handled.            *)

\* lines 135-140: the uploader's value changes, no button is pressed
UploadFiles(fs) ==
    /\ Ready
    /\ uploaded_files' = fs
    /\ clicked' = "none"
    /\ rendered' = Blank
    /\ sent' = << >> /\ called' = << >> /\ last' = NoLast
    /\ UNCHANGED <<env, BACKEND_URL, booted, question, pending>>

\* lines 172-176: the text area's value changes, no button is pressed
EditQuestion(q) ==
    /\ Ready
    /\ question' = q
    /\ clicked' = "none"
    /\ rendered' = Blank
    /\ sent' = << >> /\ called' = << >> /\ last' = NoLast
    /\ UNCHANGED <<env, BACKEND_URL, booted, uploaded_files, pending>>

\* lines 120-121, 22-23: the button is pressed, the probe is sent
ClickHealth ==
    /\ Ready
    /\ clicked' = "health"
    /\ rendered' = Blank
    /\ last' = NoLast
    /\ called' = << Call("check_backend_health", << >>, "") >>
    /\ sent' = << check_backend_health_request >>
    /\ pending' = Blocked("check_backend_health", << >>, "", check_backend_health_request)
    /\ UNCHANGED <<env, BACKEND_URL, booted, uploaded_files, question>>

\* lines 23-26, 122-125: the probe ends, the handler renders
HealthResponds(o) ==
    /\ pending.fn = "check_backend_health"
    /\ LET out == check_backend_health_finish(o)
       IN  /\ last' = Finished("check_backend_health", << >>, "", o, out)
           /\ rendered' = [rendered EXCEPT !.health = health_render(out)]
    /\ pending' = NoCall
    /\ UNCHANGED <<env, BACKEND_URL, booted, uploaded_files, question, clicked, sent, called>>

\* variant: the check of lines 146-147 missing, build_index always called
ClickBuildUnguarded ==
    /\ Ready
    /\ clicked' = "build"
    /\ LET b == build_index_begin(uploaded_files)
       IN  /\ called' = << Call("build_index", uploaded_files, "") >>
           /\ uploaded_files' = b.files
           /\ IF b.done
              THEN /\ sent' = << >>
                   /\ last' = Finished("build_index", uploaded_files, "", NoOutcome, b.out)
                   /\ rendered' = [Blank EXCEPT !.build = build_render(b.out)]
                   /\ UNCHANGED pending
              ELSE /\ sent' = << b.request >>
                   /\ last' = NoLast
                   /\ rendered' = Blank
                   /\ pending' = Blocked("build_index", uploaded_files, "", b.request)
    /\ UNCHANGED <<env, BACKEND_URL, booted, question>>

\* lines 145-150, 33-53: the button is pressed
ClickBuild ==
    /\ Ready
    /\ clicked' = "build"
    /\ IF Len(uploaded_files) = 0
       THEN /\ rendered' = [Blank EXCEPT !.build = build_warning]
            /\ last' = NoLast
            /\ called' = << >> /\ sent' = << >>
            /\ UNCHANGED <<pending, uploaded_files>>
       ELSE LET b == build_index_begin(uploaded_files)
            IN  /\ called' = << Call("build_index", uploaded_files, "") >>
                /\ uploaded_files' = b.files
                /\ IF b.done
                   THEN /\ sent' = << >>
                        /\ last' = Finished("build_index", uploaded_files, "", NoOutcome, b.out)
                        /\ rendered' = [Blank EXCEPT !.build = build_render(b.out)]
                        /\ UNCHANGED pending
                   ELSE /\ sent' = << b.request >>
                        /\ last' = NoLast
                        /\ rendered' = Blank
                        /\ pending' = Blocked("build_index", uploaded_files, "", b.request)
    /\ UNCHANGED <<env, BACKEND_URL, booted, question>>

\* lines 54-66, 152-156: the upload ends, the handler renders
BuildResponds(o) ==
    /\ pending.fn = "build_index"
    /\ LET out == build_index_finish(o)
       IN  /\ last' = Finished("build_index", pending.files, "", o, out)
           /\ rendered' = [rendered EXCEPT !.build = build_render(out)]
    /\ pending' = NoCall
    /\ UNCHANGED <<env, BACKEND_URL, booted, uploaded_files, question, clicked, sent, called>>

\* lines 178-180, 74-84: the button is pressed
ClickAsk ==
    /\ Ready
    /\ clicked' = "ask"
    /\ LET a == ask_question_begin(question)
       IN  /\ called' = << Call("ask_question", << >>, question) >>
           /\ IF a.done
              THEN /\ sent' = << >>
                   /\ last' = Finished("ask_question", << >>, question, NoOutcome, a.out)
                   /\ rendered' = [Blank EXCEPT !.ask = ask_render(a.out)]
                   /\ UNCHANGED pending
              ELSE /\ sent' = << a.request >>
                   /\ last' = NoLast
                   /\ rendered' = Blank
                   /\ pending' = Blocked("ask_question", << >>, question, a.request)
    /\ UNCHANGED <<env, BACKEND_URL, booted, uploaded_files, question>>

\* lines 85-97, 182-204: the query ends, the handler renders
AskResponds(o) ==
    /\ pending.fn = "ask_question"
    /\ LET out == ask_question_finish(o)
       IN  /\ last' = Finished("ask_question", << >>, pending.question, o, out)
           /\ rendered' = [rendered EXCEPT !.ask = ask_render(out)]
    /\ pending' = NoCall
    /\ UNCHANGED <<env, BACKEND_URL, booted, uploaded_files, question, clicked, sent, called>>

Next ==
    \/ Startup
    \/ \E fs \in Uploads : UploadFiles(fs)
    \/ \E q \in Typed : EditQuestion(q)
    \/ ClickHealth
    \/ \E o \in Outcomes(pending.request.url, {}) : HealthResponds(o)
    \/ ClickBuild
    \/ \E o \in Outcomes(pending.request.url, BuildBodies) : BuildResponds(o)
    \/ ClickAsk
    \/ \E o \in Outcomes(pending.request.url, AskBodies) : AskResponds(o)

Spec == Init /\ [][Next]_vars

-----------------------------------------------------------------------------
(* The Transport Client called directly, with any argument; uploaded_files *)
(* and question hold the argument of the call in progress.                 *)

CallCheckBackendHealth ==
    /\ Ready
    /\ called' = << Call("check_backend_health", << >>, "") >>
    /\ sent' = << check_backend_health_request >>
    /\ last' = NoLast
    /\ pending' = Blocked("check_backend_health", << >>, "", check_backend_health_request)
    /\ uploaded_files' = << >> /\ question' = ""
    /\ UNCHANGED <<env, BACKEND_URL, booted, clicked, rendered>>

CheckBackendHealthReturns(o) ==
    /\ pending.fn = "check_backend_health"
    /\ last' = Finished("check_backend_health", << >>, "", o, check_backend_health_finish(o))
    /\ pending' = NoCall
    /\ UNCHANGED <<env, BACKEND_URL, booted, uploaded_files, question, clicked, sent, called,
                   rendered>>

CallBuildIndex(fs) ==
    /\ Ready
    /\ LET b == build_index_begin(fs)
       IN  /\ called' = << Call("build_index", fs, "") >>
           /\ uploaded_files' = b.files
           /\ IF b.done
              THEN /\ sent' = << >>
                   /\ last' = Finished("build_index", fs, "", NoOutcome, b.out)
                   /\ UNCHANGED pending
              ELSE /\ sent' = << b.request >>
                   /\ last' = NoLast
                   /\ pending' = Blocked("build_index", fs, "", b.request)
    /\ question' = ""
    /\ UNCHANGED <<env, BACKEND_URL, booted, clicked, rendered>>

BuildIndexReturns(o) ==
    /\ pending.fn = "build_index"
    /\ last' = Finished("build_index", pending.files, "", o, build_index_finish(o))
    /\ pending' = NoCall
    /\ UNCHANGED <<env, BACKEND_URL, booted, uploaded_files, question, clicked, sent, called,
                   rendered>>

CallAskQuestion(q) ==
    /\ Ready
    /\ LET a == ask_question_begin(q)
       IN  /\ called' = << Call("ask_question", << >>, q) >>
           /\ question' = q
           /\ IF a.done
              THEN /\ sent' = << >>
                   /\ last' = Finished("ask_question", << >>, q, NoOutcome, a.out)
                   /\ UNCHANGED pending
              ELSE /\ sent' = << a.request >>
                   /\ last' = NoLast
                   /\ pending' = Blocked("ask_question", << >>, q, a.request)
    /\ uploaded_files' = << >>
    /\ UNCHANGED <<env, BACKEND_URL, booted, clicked, rendered>>

AskQuestionReturns(o) ==
    /\ pending.fn = "ask_question"
    /\ last' = Finished("ask_question", << >>, pending.question, o, ask_question_finish(o))
    /\ pending' = NoCall
    /\ UNCHANGED <<env, BACKEND_URL, booted, uploaded_files, question, clicked, sent, called,
                   rendered>>

NextClient ==
    \/ Startup
    \/ CallCheckBackendHealth
    \/ \E o \in Outcomes(pending.request.url, {}) : CheckBackendHealthReturns(o)
    \/ \E fs \in FileArgs : CallBuildIndex(fs)
    \/ \E o \in Outcomes(pending.request.url, BuildBodies) : BuildIndexReturns(o)
    \/ \E q \in Questions : CallAskQuestion(q)
    \/ \E o \in Outcomes(pending.request.url, AskBodies) : AskQuestionReturns(o)

SpecClient == Init /\ [][NextClient]_vars

-----------------------------------------------------------------------------
(* Vocabulary of the properties *)

\* a string that is empty or holds nothing but whitespace
IsBlank(q) == \A i \in 1..Len(q) : CharAt(q, i) \in Whitespace

\* a call that returned {error: <string>}
IsErrorResult(out) ==
    /\ out.kind = "return"
    /\ IsDict(out.value)
    /\ DictHas(out.value, "error")
    /\ DictGet(out.value, "error", JNull).t = "str"

\* a call that returned an object: a success object or an error object
IsStructured(out) == out.kind = "return" /\ IsDict(out.value)

Answered(fn) == last.fn = fn /\ last.outcome.kind = "response"

\* the last call was answered with a status other than 200
Refused(fn) == Answered(fn) /\ last.outcome.status_code # 200

\* the last ask was answered 200 with a body that is JSON
AskParsed ==
    Answered("ask_question") /\ last.outcome.status_code = 200 /\ last.outcome.body.valid

\* ... with a JSON object that carries no error field
AskSucceeded ==
    /\ AskParsed
    /\ IsDict(last.outcome.body.value)
    /\ ~DictHas(last.outcome.body.value, "error")

\* the state of a workflow, read off the page
Handler(w) ==
    CASE w = "health" -> "check_backend_health"
      [] w = "build" -> "build_index"
      [] w = "ask" -> "ask_question"
WorkflowState(w) ==
    IF pending.fn = Handler(w) THEN "Pending"
    ELSE IF rendered[w] = << >> THEN "Idle"
    ELSE IF Crashed(rendered[w]) THEN "Fault"
    ELSE IF rendered[w][1].el \in {"success", "markdown"} THEN "Success"
    ELSE "Failure"
Workflows == {"health", "build", "ask"}

-----------------------------------------------------------------------------
(* C1: build_index and ask_question return a structured value (an object)  *)
(* whatever the transport fault or the backend's response, and never raise. *)
C1_AlwaysStructured ==
    last.fn \in {"build_index", "ask_question"} => IsStructured(last.out)

\* the detail field of a body that is a JSON object with one, else the body's text
C2_Detail(body) ==
    IF body.valid /\ IsDict(body.value) /\ DictHas(body.value, "detail")
    THEN PyStr(DictGet(body.value, "detail", JNull))
    ELSE body.text

(* C2: for a response whose status is not 200, build_index and ask_question *)
(* both return {error: "Backend error (<status>): <detail>"}, <detail>      *)
(* being the detail field of a body that is a JSON object with one, and the *)
(* response text otherwise.                                                 *)
C2_BackendError ==
    \A fn \in {"build_index", "ask_question"} :
        Refused(fn) =>
            /\ last.out.kind = "return"
            /\ IsErrorResult(last.out)
            /\ DictGet(last.out.value, "error", JNull).v =
                   "Backend error (" \o ToString(last.outcome.status_code) \o "): "
                   \o C2_Detail(last.outcome.body)

(* C3: build_index on an empty sequence of documents returns an error       *)
(* result and sends no request.                                             *)
C3_EmptyDocuments ==
    /\ (last.fn = "build_index" /\ Len(last.files) = 0) =>
           (IsErrorResult(last.out) /\ sent = << >>)
    /\ pending.fn = "build_index" => Len(pending.files) > 0
\* what does hold of C2: on any outcome the two functions end the same way
MirroredHandling ==
    last.fn \in {"build_index", "ask_question"} /\ last.outcome.kind # "none" =>
        /\ last.out = build_index_finish(last.outcome)
        /\ last.out = ask_question_finish(last.outcome)

C3_Witness ==
    last.fn = "build_index" /\ Len(last.files) = 0 /\ IsErrorResult(last.out)

(* C4: ask_question on an empty or whitespace-only question returns an      *)
(* error result and sends no request; on any other question it sends        *)
(* exactly one request.                                                     *)
C4_BlankQuestion ==
    /\ (last.fn = "ask_question" /\ IsBlank(last.question)) =>
           (IsErrorResult(last.out) /\ sent = << >>)
    /\ (last.fn = "ask_question" /\ ~IsBlank(last.question)) =>
           (Len(sent) = 1 /\ sent[1].url = BACKEND_URL \o "/ask")
    /\ pending.fn = "ask_question" =>
           (~IsBlank(pending.question) /\ Len(sent) = 1)
C4_Witness ==
    /\ last.fn = "ask_question"
    /\ last.question # "" /\ IsBlank(last.question)
    /\ IsErrorResult(last.out)

(* C5: check_backend_health returns True exactly when the probe ends with   *)
(* status 200, and returns False, never raising, on every fault and every   *)
(* other status.                                                            *)
C5_Health ==
    last.fn = "check_backend_health" =>
        /\ last.out.kind = "return"
        /\ last.out.value.t = "bool"
        /\ last.out.value.v = (last.outcome.kind = "response"
                               /\ last.outcome.status_code = 200)
C5_Witness ==
    /\ Refused("check_backend_health")
    /\ last.outcome.status_code < 400
    /\ last.out.value.v = FALSE

(* C6: BACKEND_URL is the override without its trailing slashes when the    *)
(* override is set and not empty, and the default in every other case.      *)
C6_Locator ==
    booted =>
        BACKEND_URL = IF env.set /\ env.value # ""
                      THEN rstrip(env.value, "/")
                      ELSE DEFAULT_BACKEND_URL

\* the chunks of the body the backend sent, and the source file a chunk names
C7_Chunks == DictGet(last.outcome.body.value, "chunks", JArr(<< >>)).v
C7_Source(ch) ==
    LET meta == DictGet(ch, "metadata", JNull)
    IN  IF IsDict(meta) /\ DictHas(meta, "source_file")
        THEN DictGet(meta, "source_file", JNull).v
        ELSE "unknown"

(* C7: a 200 answer to ask whose body is JSON is returned as parsed,        *)
(* unmodified, and the chunks are displayed numbered from 1 in the order    *)
(* the backend sent them.                                                   *)
C7_OrderPreserved ==
    AskParsed =>
        /\ last.out = Return(last.outcome.body.value)
        /\ (AskSucceeded /\ \A i \in 1..Len(C7_Chunks) : IsDict(C7_Chunks[i])) =>
               /\ Len(rendered.ask) = 3 + 3 * Len(C7_Chunks)
               /\ \A i \in 1..Len(C7_Chunks) :
                      /\ StartsWith(rendered.ask[3 * i + 1].text,
                                    "**Chunk " \o ToString(i) \o "**")
                      /\ Contains(rendered.ask[3 * i + 1].text,
                                  "*Source:* " \o C7_Source(C7_Chunks[i]) \o " ")
                      /\ rendered.ask[3 * i + 2].value =
                             DictGet(C7_Chunks[i], "text", JStr(""))
C7_Witness ==
    /\ AskSucceeded
    /\ Len(C7_Chunks) = 2
    /\ C7_Source(C7_Chunks[1]) = "b.pdf" /\ C7_Source(C7_Chunks[2]) = "a.pdf"
    /\ Len(rendered.ask) = 9

(* C8, as stated: a field missing from a successful ask response is         *)
(* presented as the empty string (answer, context) or as no chunks, and     *)
(* nothing raises.                                                          *)
C8_EmptyDefaults ==
    AskSucceeded =>
        LET body == last.outcome.body.value
        IN  /\ ~Crashed(rendered.ask)
            /\ ~DictHas(body, "answer") => rendered.ask[2].value = JStr("")
            /\ ~DictHas(body, "context") => rendered.ask[3].value = JStr("")
            /\ ~DictHas(body, "chunks") => Len(rendered.ask) = 3

(* C8, amended: of a 200 answer that is a JSON object without an error      *)
(* field, a missing answer is presented as "No answer returned.", a missing *)
(* context as the empty string and missing chunks as no chunk list; the     *)
(* omission raises nothing.                                                 *)
C8_Defaults ==
    AskSucceeded =>
        LET body == last.outcome.body.value
        IN  /\ Len(rendered.ask) >= 3
            /\ \A i \in 1..3 : rendered.ask[i].el # "exception"
            /\ ~DictHas(body, "answer") =>
                   rendered.ask[2] = El("write", "", JStr("No answer returned."))
            /\ ~DictHas(body, "context") =>
                   rendered.ask[3] = El("code", "", JStr(""))
            /\ ~DictHas(body, "chunks") => Len(rendered.ask) = 3
C8_Witness ==
    /\ AskSucceeded
    /\ last.outcome.body.value = JObj(<< >>)
    /\ Len(rendered.ask) = 3

(* C9, as stated: in the build and in the ask workflow the invalid input    *)
(* (no documents; a blank question) sends no request, shows a validation    *)
(* message, and never reaches build_index / ask_question.                   *)
C9_NeverInvoked ==
    /\ (clicked = "build" /\ Len(uploaded_files) = 0) =>
           (sent = << >> /\ rendered.build = build_warning /\ called = << >>)
    /\ (clicked = "ask" /\ IsBlank(question)) =>
           (sent = << >> /\ Len(rendered.ask) = 1 /\ rendered.ask[1].el = "error"
            /\ called = << >>)

(* C9, amended: in both workflows the invalid input sends no request and    *)
(* shows a validation message. The build handler catches it and never calls *)
(* build_index; the ask handler calls ask_question with the blank question, *)
(* and ask_question returns the validation error the handler shows.         *)
C9_Validation ==
    /\ (clicked = "build" /\ Len(uploaded_files) = 0) =>
           (sent = << >> /\ rendered.build = build_warning /\ called = << >>
            /\ pending = NoCall)
    /\ (clicked = "ask" /\ IsBlank(question)) =>
           /\ sent = << >> /\ pending = NoCall
           /\ called = << Call("ask_question", << >>, question) >>
           /\ last.fn = "ask_question" /\ last.outcome.kind = "none"
           /\ rendered.ask = << Text("error", "Please enter a question.") >>
    /\ \A i \in 1..Len(called) :
           called[i].fn = "build_index" => Len(called[i].files) > 0
C9_Witness ==
    /\ clicked = "ask" /\ question # "" /\ IsBlank(question)
    /\ rendered.ask = << Text("error", "Please enter a question.") >>

(* C10: every workflow is Idle, Pending, Success or Failure, an invocation  *)
(* sends at most one request, and a request is in flight only while the     *)
(* workflow is Pending.                                                     *)
C10_Workflow ==
    /\ \A w \in Workflows :
           WorkflowState(w) \in {"Idle", "Pending", "Success", "Failure"}
    /\ Len(sent) <= 1
    /\ \A w \in Workflows : WorkflowState(w) = "Pending" => clicked = w

\* what does hold of C10: at most one request for each invocation, sent by the
\* workflow that was invoked, and none in flight outside Pending
OneRequestPerInvocation ==
    /\ Len(sent) <= 1
    /\ \A w \in Workflows : WorkflowState(w) = "Pending" => clicked = w
    /\ pending # NoCall => sent = << pending.request >>
    /\ clicked = "none" => sent = << >>

====
